---- MODULE Spec2Model ----
\* Model of kauldron/train/train_step.py: TrainState, Auxiliaries,
\* ModelWithAux and TrainStep.  Tensors are scalars modulo Mod, pytrees are
\* functions from leaf names to scalars, Python dicts are functions from
\* their keys.  The model, the losses, the metric, the summary, the optimizer
\* and the RNG-stream policy are the external collaborators of train_step.py;
\* each is a fixed deterministic function here.
EXTENDS Integers, FiniteSets, Sequences, TLC

\* ---------------------------------------------------------------- bounds
Mod == 3            \* scalars are 0 .. Mod-1
MaxStep == 3        \* the step counter is capped in the guards
MaxCalls == 2       \* number of TrainStep.step calls in one run
MaxBatch == 1       \* batches are 0 .. MaxBatch
MaxVal == 1         \* accumulator states drawn for merge are 0 .. MaxVal

Scalar == 0 .. (Mod - 1)
Batches == 0 .. MaxBatch
Bool == {TRUE, FALSE}
Flags == [return_losses : Bool, return_metrics : Bool, return_summaries : Bool]
NoFlags == [return_losses |-> FALSE, return_metrics |-> FALSE,
            return_summaries |-> FALSE]

\* ------------------------------------------------------- dicts and pytrees
EmptyDict == [k \in {} |-> 0]
Keys(d) == DOMAIN d

RECURSIVE TreeSum(_)
TreeSum(t) ==
  IF DOMAIN t = {} THEN 0
  ELSE LET k == CHOOSE x \in DOMAIN t : TRUE
       IN (t[k] + TreeSum([j \in DOMAIN t \ {k} |-> t[j]])) % Mod

\* Optional[PyTree]: None, or a tree (possibly the empty tree).
None == [some |-> FALSE, tree |-> EmptyDict]
Some(t) == [some |-> TRUE, tree |-> t]
\* Python truthiness of an Optional dict tree: None and {} are falsy.
Truthy(x) == x.some /\ DOMAIN x.tree # {}
\* Python `a or b`.
PyOr(a, b) == IF Truthy(a) THEN a ELSE b

\* --------------------------------------------------- registered collections
Losses == {"l2"}
Metrics == {"norm"}
Summaries == {"img"}

\* Configurations: the parameter leaves of the model and the optimizer kind.
ModelKinds == {"dense", "parameterless"}
OptKinds == {"sgd", "momentum"}
ModelKeys(model) == IF model = "dense" THEN {"w"} ELSE {}

\* ----------------------------------------------------------- TrainState
TrainState_replace_step(self, step, params, opt_state) ==
  [self EXCEPT !.step = step, !.params = params, !.opt_state = opt_state]

TrainState_next_none_check(self, new_params, new_opt_state) ==
  TrainState_replace_step(self, self.step + 1,
     IF new_params.some THEN new_params ELSE self.params,
     IF new_opt_state.some THEN new_opt_state ELSE self.opt_state)

TrainState_next_time(self, new_params, new_opt_state) ==
  [TrainState_replace_step(self, self.step + 1,
      PyOr(new_params, self.params), PyOr(new_opt_state, self.opt_state))
   EXCEPT !.training_time_hours = self.training_time_hours + 1]

TrainState_next_same_step(self, new_params, new_opt_state) ==
  TrainState_replace_step(self, self.step,
      PyOr(new_params, self.params), PyOr(new_opt_state, self.opt_state))

TrainState_next(self, new_params, new_opt_state) ==
  LET step == self.step + 1
      np == PyOr(new_params, self.params)
      no == PyOr(new_opt_state, self.opt_state)
  IN TrainState_replace_step(self, step, np, no)

\* ----------------------------------------------------------- Auxiliaries
Auxiliaries(ls, ms, sk) ==
  [loss_states |-> ls, metric_states |-> ms, summary_kwargs |-> sk]
Auxiliaries_default == Auxiliaries(EmptyDict, EmptyDict, EmptyDict)

\* kd_metrics.State.merge: the accumulator's own merge law (associative and
\* commutative): addition of the accumulated values.
State_merge(a, b) == (a + b) % Mod

\* Faulty variant that folds each later state in twice.
reduce_states_single_twice(states) ==
  LET RECURSIVE Fold(_, _)
      Fold(acc, i) == IF i > Len(states) THEN acc
                      ELSE Fold(State_merge(State_merge(acc, states[i]), states[i]), i + 1)
  IN Fold(states[1], 2)

reduce_states_single(states) ==
  LET RECURSIVE Fold(_, _)
      Fold(final_state, i) ==
        IF i > Len(states) THEN final_state
        ELSE Fold(State_merge(final_state, states[i]), i + 1)
  IN Fold(states[1], 2)

\* epy.zip_dict(d0, d1): the keys of both dicts, each with the tuple of its
\* values; KeyError when a dict lacks a key of the other.
zip_dict_raises(d0, d1) == Keys(d0) # Keys(d1)
zip_dict(d0, d1) == [k \in Keys(d0) \cap Keys(d1) |-> <<d0[k], d1[k]>>]

\* Faulty variant that merges the common keys and never raises.
reduce_states_common(d0, d1) ==
  [raised |-> FALSE,
   value |-> [k \in Keys(d0) \cap Keys(d1) |-> reduce_states_single(zip_dict(d0, d1)[k])]]

\* Result of a call that may raise: raised, or a value.
reduce_states(d0, d1) ==
  IF zip_dict_raises(d0, d1)
  THEN [raised |-> TRUE, value |-> EmptyDict]
  ELSE [raised |-> FALSE,
        value |-> [k \in Keys(d0) |-> reduce_states_single(zip_dict(d0, d1)[k])]]

Raised == [raised |-> TRUE, value |-> Auxiliaries_default]

\* Faulty variant that resets summary_kwargs in the result.
Auxiliaries_merge_drop(self, other) ==
  LET ls == reduce_states(self.loss_states, other.loss_states)
      ms == reduce_states(self.metric_states, other.metric_states)
  IN IF ls.raised \/ ms.raised THEN Raised
     ELSE [raised |-> FALSE, value |-> Auxiliaries(ls.value, ms.value, EmptyDict)]

\* self.replace(loss_states=..., metric_states=...): every other field of
\* self, summary_kwargs included, is carried over.
Auxiliaries_merge(self, other) ==
  LET ls == reduce_states(self.loss_states, other.loss_states)
      ms == reduce_states(self.metric_states, other.metric_states)
  IN IF ls.raised \/ ms.raised THEN Raised
     ELSE [raised |-> FALSE,
           value |-> [self EXCEPT !.loss_states = ls.value,
                                  !.metric_states = ms.value]]

\* ------------------------------------------------------------- variables
VARIABLES
  cfg,        \* the root configuration: model, optimizer, RNG seed
  resolved,   \* whether update_from_root_cfg has bound the references
  has_state,  \* whether the caller holds a TrainState
  state,      \* the TrainState the caller holds
  n_calls,    \* number of TrainStep.step calls made so far in the run
  n_trans,    \* number of step/next transitions of `state` since TrainStep.init
  call,       \* the last call: operation and arguments
  ret,        \* the last call's outcome
  replay,     \* outcome of calling step again on the last step's arguments
  ma, mb, mc, \* three Auxiliaries values given to merge
  mres        \* the outcome of the merges

vars == <<cfg, resolved, has_state, state, n_calls, n_trans, call, ret, replay,
          ma, mb, mc, mres>>
train_vars == <<cfg, resolved, has_state, state, n_calls, n_trans, call, ret,
                replay>>
merge_vars == <<ma, mb, mc, mres>>

Seeds == {0, 1}
Configs == [model : ModelKinds, optimizer : OptKinds, seed : Seeds]

\* ------------------------------------------------- external collaborators
\* rng_streams.init_rngs() and rng_streams.train_rngs(step).
init_rngs(c) == c.seed % Mod
train_rngs(c, step) == (c.seed + step + 1) % Mod

\* self.model.init(init_rngs, ...)["params"]
model_init(c, rngs) == [k \in ModelKeys(c.model) |-> rngs]
\* self.model.apply({"params": params}, ..., rngs=rngs, is_training_property=...)
model_apply(params, batch, rngs, is_training) ==
  [preds |-> (TreeSum(params) + batch + (IF is_training THEN rngs ELSE 0)) % Mod,
   interms |-> (TreeSum(params) + batch) % Mod]
\* kd_losses.compute_losses(losses=self.losses, context=context)
compute_losses(context) ==
  LET ls == [n \in Losses |-> (context.preds + context.batch) % Mod]
  IN [loss_total |-> ls["l2"], loss_states |-> ls]
\* jax.grad(forward, argnums=0, has_aux=True): the derivative of loss_total
\* in each parameter leaf.
grad_of(params, loss_total) == [k \in DOMAIN params |-> (loss_total + 1) % Mod]
\* self.optimizer.init(params), self.optimizer.update(grads, opt_state, params)
optimizer_init(c, params) ==
  IF c.optimizer = "momentum" THEN [k \in DOMAIN params |-> 0] ELSE EmptyDict
optimizer_update(c, grads, opt_state, params) ==
  IF c.optimizer = "momentum"
  THEN LET mu == [k \in DOMAIN grads |-> (opt_state[k] + grads[k]) % Mod]
       IN [updates |-> [k \in DOMAIN grads |-> (Mod - mu[k]) % Mod],
           new_opt_state |-> mu]
  ELSE [updates |-> [k \in DOMAIN grads |-> (Mod - grads[k]) % Mod],
        new_opt_state |-> opt_state]
\* optax.apply_updates(params, updates)
apply_updates(params, updates) ==
  [k \in DOMAIN params |-> (params[k] + updates[k]) % Mod]
\* m.get_state_from_context(context) of the registered metric: it reads the
\* context's params, step and gradients.
get_state_from_context(m, context) ==
  (TreeSum(context.params) + context.step
     + (IF context.grads.some THEN TreeSum(context.grads.tree) ELSE 0)) % Mod
\* summary.gather_kwargs(context)
gather_kwargs(s, context) == context.preds

\* config_util.UpdateFromRootCfg._assert_root_cfg_resolved: the assertion
\* passes exactly when the references are resolved.
assert_root_cfg_resolved(is_resolved) == is_resolved

\* ------------------------------------------------------------- Context
Context(step, batch, params) ==
  [step |-> step, batch |-> batch, params |-> params, preds |-> 0,
   interms |-> 0, loss_states |-> EmptyDict, grads |-> None, updates |-> None]
BlankContext == Context(0, 0, EmptyDict)

\* ----------------------------------------------------------- ModelWithAux
\* A call's outcome: "ok" with a value, or "AssertionError"; touched is the
\* set of collaborators called before the call ended.
ModelWithAux_init_unchecked(c, is_resolved, rngs) ==
  [outcome |-> "ok", params |-> model_init(c, rngs), touched |-> {"model"}]

ModelWithAux_init(c, is_resolved, rngs) ==
  IF ~assert_root_cfg_resolved(is_resolved)
  THEN [outcome |-> "AssertionError", params |-> EmptyDict, touched |-> {}]
  ELSE [outcome |-> "ok", params |-> model_init(c, rngs), touched |-> {"model"}]

ModelWithAux_forward(params, batch, rngs, step, is_training) ==
  LET context == Context(step, batch, params)
      out == model_apply(params, batch, rngs, is_training)
      context2 == [context EXCEPT !.preds = out.preds, !.interms = out.interms]
      losses == compute_losses(context2)
  IN [loss_total |-> losses.loss_total,
      context |-> [context2 EXCEPT !.loss_states = losses.loss_states]]

\* Faulty variant in which return_losses gates the metrics too.
ModelWithAux_get_aux_mixed(context, flags) ==
  Auxiliaries(
    IF flags.return_losses THEN context.loss_states ELSE EmptyDict,
    IF flags.return_losses
      THEN [m \in Metrics |-> get_state_from_context(m, context)] ELSE EmptyDict,
    IF flags.return_summaries
      THEN [s \in Summaries |-> gather_kwargs(s, context)] ELSE EmptyDict)

ModelWithAux_get_aux(context, flags) ==
  LET aux0 == Auxiliaries_default
      aux1 == IF flags.return_losses
              THEN [aux0 EXCEPT !.loss_states = context.loss_states] ELSE aux0
      aux2 == IF flags.return_metrics
              THEN [aux1 EXCEPT !.metric_states =
                      [m \in Metrics |-> get_state_from_context(m, context)]]
              ELSE aux1
      aux3 == IF flags.return_summaries
              THEN [aux2 EXCEPT !.summary_kwargs =
                      [s \in Summaries |-> gather_kwargs(s, context)]]
              ELSE aux2
  IN aux3

\* -------------------------------------------------------------- TrainStep
BlankState ==
  [step |-> 0, params |-> None, opt_state |-> None, training_time_hours |-> 0]

TrainStep__init(c, is_resolved) ==
  LET p == ModelWithAux_init(c, is_resolved, init_rngs(c))
  IN IF p.outcome # "ok"
     THEN [outcome |-> p.outcome, state |-> BlankState,
           touched |-> {"rng"} \cup p.touched]
     ELSE [outcome |-> "ok",
           state |-> [step |-> 0, params |-> Some(p.params),
                      opt_state |-> Some(optimizer_init(c, p.params)),
                      training_time_hours |-> 0],
           touched |-> {"rng", "optimizer"} \cup p.touched]

\* Faulty variant without the assertion.
TrainStep_init_unchecked(c, is_resolved) ==
  LET p == ModelWithAux_init_unchecked(c, is_resolved, init_rngs(c))
  IN [outcome |-> "ok",
      state |-> [step |-> 0, params |-> Some(p.params),
                 opt_state |-> Some(optimizer_init(c, p.params)),
                 training_time_hours |-> 0],
      touched |-> {"rng", "optimizer", "model"}]

TrainStep_init(c, is_resolved) ==
  IF ~assert_root_cfg_resolved(is_resolved)
  THEN [outcome |-> "AssertionError", state |-> BlankState, touched |-> {}]
  ELSE TrainStep__init(c, is_resolved)

\* Faulty variant drawing the step's RNGs from a stream that advances per call.
TrainStep_step_rngs_stateful(c, st) == train_rngs(c, n_calls)

\* rngs=self.rng_streams.train_rngs(state.step)
TrainStep_step_rngs(c, st) == train_rngs(c, st.step)

\* Faulty variant reading the auxiliaries from a forward pass on the updated state.
TrainStep_aux_context_post(c, next_state, batch, context, grads, updates) ==
  [ModelWithAux_forward(next_state.params.tree, batch,
       train_rngs(c, next_state.step), next_state.step, TRUE).context
   EXCEPT !.grads = Some(grads), !.updates = Some(updates)]

\* context = context.replace(grads=grads, updates=updates)
TrainStep_aux_context(c, next_state, batch, context, grads, updates) ==
  [context EXCEPT !.grads = Some(grads), !.updates = Some(updates)]

TrainStep_step(c, st, batch, flags) ==
  LET rngs == TrainStep_step_rngs(c, st)
      fwd == ModelWithAux_forward(st.params.tree, batch, rngs, st.step, TRUE)
      grads == grad_of(st.params.tree, fwd.loss_total)
      upd == optimizer_update(c, grads, st.opt_state.tree, st.params.tree)
      new_params == apply_updates(st.params.tree, upd.updates)
      next_state == TrainState_next(st, Some(new_params), Some(upd.new_opt_state))
      context == TrainStep_aux_context(c, next_state, batch, fwd.context,
                                       grads, upd.updates)
      aux == ModelWithAux_get_aux(context, flags)
  IN [outcome |-> "ok", state |-> next_state, params |-> None, aux |-> aux,
      ctx |-> context, touched |-> {"rng", "model", "optimizer"}]

\* ---------------------------------------------------------- call records
NoCall ==
  [op |-> "none", state |-> BlankState, batch |-> 0, flags |-> NoFlags,
   new_params |-> None, new_opt_state |-> None, ctx |-> BlankContext]
NoRet ==
  [outcome |-> "none", state |-> BlankState, params |-> None,
   aux |-> Auxiliaries_default, ctx |-> BlankContext, touched |-> {}]
NoReplay == [done |-> FALSE, ret |-> NoRet]
NoMres == [op |-> "none", ab |-> Raised, left |-> Raised, right |-> Raised]

\* The trees a caller can hand to TrainState.next: nothing, the empty tree,
\* or a tree over the given leaves.
NewTrees(keys) ==
  {None, Some(EmptyDict)} \cup {Some(t) : t \in [keys -> Scalar]}
OptKeys(c) == IF c.optimizer = "momentum" THEN ModelKeys(c.model) ELSE {}

\* The Auxiliaries values merge is applied to: every key set within the
\* registered names, every accumulator value.
Dicts(names) == UNION {[ks -> 0 .. MaxVal] : ks \in SUBSET names}
AuxValues ==
  {Auxiliaries(ls, ms, sk) :
     ls \in Dicts(Losses), ms \in Dicts(Metrics), sk \in Dicts(Summaries)}

\* ---------------------------------------------------------------- actions
TrainInit ==
  /\ cfg \in Configs
  /\ resolved = FALSE
  /\ has_state = FALSE
  /\ state = BlankState
  /\ n_calls = 0
  /\ n_trans = 0
  /\ call = NoCall
  /\ ret = NoRet
  /\ replay = NoReplay

Init ==
  /\ TrainInit
  /\ ma = Auxiliaries_default
  /\ mb = Auxiliaries_default
  /\ mc = Auxiliaries_default
  /\ mres = NoMres

\* TrainStep.update_from_root_cfg: binds the references of TrainStep and of
\* its model_with_aux.
UpdateFromRootCfg ==
  /\ ~resolved
  /\ resolved' = TRUE
  /\ call' = [NoCall EXCEPT !.op = "update_from_root_cfg"]
  /\ ret' = NoRet
  /\ replay' = NoReplay
  /\ UNCHANGED <<cfg, has_state, state, n_calls, n_trans, merge_vars>>

\* ModelWithAux.init(init_rngs, elem_spec)
ModelWithAuxInit ==
  LET r == ModelWithAux_init(cfg, resolved, init_rngs(cfg))
  IN /\ call' = [NoCall EXCEPT !.op = "ModelWithAux.init"]
     /\ ret' = [NoRet EXCEPT !.outcome = r.outcome,
                             !.params = IF r.outcome = "ok" THEN Some(r.params)
                                        ELSE None,
                             !.touched = r.touched]
     /\ replay' = NoReplay
     /\ UNCHANGED <<cfg, resolved, has_state, state, n_calls, n_trans,
                    merge_vars>>

\* state = TrainStep.init(elem_spec)
TrainStepInit ==
  LET r == TrainStep_init(cfg, resolved)
  IN /\ call' = [NoCall EXCEPT !.op = "TrainStep.init"]
     /\ ret' = [NoRet EXCEPT !.outcome = r.outcome, !.state = r.state,
                             !.touched = r.touched]
     /\ replay' = NoReplay
     /\ IF r.outcome = "ok"
        THEN has_state' = TRUE /\ state' = r.state /\ n_trans' = 0
        ELSE UNCHANGED <<has_state, state, n_trans>>
     /\ UNCHANGED <<cfg, resolved, n_calls, merge_vars>>

\* state, aux = TrainStep.step(state, batch, return_...=...).  A state only
\* comes from TrainStep.init, so the references are resolved here.
TrainStepStep ==
  \E b \in Batches, f \in Flags :
    /\ has_state
    /\ state.step < MaxStep
    /\ n_calls < MaxCalls
    /\ call' = [NoCall EXCEPT !.op = "step", !.state = state,
                              !.batch = b, !.flags = f]
    /\ ret' = TrainStep_step(cfg, state, b, f)
    /\ state' = ret'.state
    /\ n_calls' = n_calls + 1
    /\ n_trans' = n_trans + 1
    /\ replay' = NoReplay
    /\ UNCHANGED <<cfg, resolved, has_state, merge_vars>>

\* TrainStep.step called once more on the arguments of the last step call;
\* the caller keeps the state it holds.
TrainStepReplay ==
  /\ call.op = "step"
  /\ ~replay.done
  /\ n_calls < MaxCalls
  /\ replay' = [done |-> TRUE,
                ret |-> TrainStep_step(cfg, call.state, call.batch, call.flags)]
  /\ n_calls' = n_calls + 1
  /\ UNCHANGED <<cfg, resolved, has_state, state, n_trans, call, ret,
                 merge_vars>>

\* state = state.next(new_params, new_opt_state)
TrainStateNext ==
  \E np \in NewTrees(ModelKeys(cfg.model)), no \in NewTrees(OptKeys(cfg)) :
    /\ has_state
    /\ state.step < MaxStep
    /\ LET s2 == TrainState_next(state, np, no)
       IN /\ call' = [NoCall EXCEPT !.op = "next", !.state = state,
                                    !.new_params = np, !.new_opt_state = no]
          /\ ret' = [NoRet EXCEPT !.outcome = "ok", !.state = s2]
          /\ state' = s2
    /\ n_trans' = n_trans + 1
    /\ replay' = NoReplay
    /\ UNCHANGED <<cfg, resolved, has_state, n_calls, merge_vars>>

\* aux = ModelWithAux.get_aux(context, return_...=...) on the context of the
\* last step, or on a blank Context.  get_aux makes no resolution check; on
\* unresolved references only the calls that read none of them are modelled.
ModelWithAuxGetAux ==
  \E f \in Flags, c \in {BlankContext, ret.ctx} :
    /\ resolved \/ (~f.return_metrics /\ ~f.return_summaries)
    /\ call' = [NoCall EXCEPT !.op = "get_aux", !.flags = f, !.ctx = c]
    /\ ret' = [NoRet EXCEPT !.outcome = "ok",
                            !.aux = ModelWithAux_get_aux(c, f), !.ctx = c]
    /\ replay' = NoReplay
    /\ UNCHANGED <<cfg, resolved, has_state, state, n_calls, n_trans,
                   merge_vars>>

Next ==
  \/ UpdateFromRootCfg
  \/ ModelWithAuxInit
  \/ TrainStepInit
  \/ TrainStepStep
  \/ TrainStepReplay
  \/ TrainStateNext
  \/ ModelWithAuxGetAux

Spec == Init /\ [][Next]_vars

\* ------------------------------------------- merge, as a pure function
InitMerge ==
  /\ cfg = [model |-> "dense", optimizer |-> "sgd", seed |-> 0]
  /\ resolved = FALSE
  /\ has_state = FALSE
  /\ state = BlankState
  /\ n_calls = 0
  /\ n_trans = 0
  /\ call = NoCall
  /\ ret = NoRet
  /\ replay = NoReplay
  /\ ma \in AuxValues
  /\ mb \in AuxValues
  /\ mc \in AuxValues
  /\ mres = NoMres

\* ma.merge(mb)
Merge ==
  /\ mres.op = "none"
  /\ mres' = [NoMres EXCEPT !.op = "merge", !.ab = Auxiliaries_merge(ma, mb)]
  /\ UNCHANGED <<train_vars, ma, mb, mc>>

\* (ma.merge(mb)).merge(mc) and ma.merge(mb.merge(mc)); a raise inside
\* either grouping ends it.
MergeThree ==
  /\ mres.op = "none"
  /\ LET ab == Auxiliaries_merge(ma, mb)
         bc == Auxiliaries_merge(mb, mc)
     IN mres' = [NoMres EXCEPT
                   !.op = "assoc",
                   !.left = IF ab.raised THEN Raised
                            ELSE Auxiliaries_merge(ab.value, mc),
                   !.right = IF bc.raised THEN Raised
                             ELSE Auxiliaries_merge(ma, bc.value)]
  /\ UNCHANGED <<train_vars, ma, mb, mc>>

NextMerge == Merge \/ MergeThree

SpecMerge == InitMerge /\ [][NextMerge]_vars

\* ------------------------------------------------------------- properties
StepDone == call.op = "step" /\ ret.outcome = "ok"
AllFlags == [return_losses |-> TRUE, return_metrics |-> TRUE,
             return_summaries |-> TRUE]

\* C1: the context step hands to get_aux holds the input state's params and
\* step, and get_aux on the context rebuilt by forward on the input state,
\* with this step's grads and updates attached, gives the metric states that
\* step returned.
C1_AuxFromPreUpdateContext ==
  StepDone =>
    /\ ret.ctx.params = call.state.params.tree
    /\ ret.ctx.step = call.state.step
    /\ LET fwd == ModelWithAux_forward(call.state.params.tree, call.batch,
                     train_rngs(cfg, call.state.step), call.state.step, TRUE)
           rebuilt == [fwd.context EXCEPT !.grads = ret.ctx.grads,
                                          !.updates = ret.ctx.updates]
       IN ModelWithAux_get_aux(rebuilt, call.flags).metric_states
            = ret.aux.metric_states

\* A step that returned metrics and changed the parameters.
C1_Witness ==
  /\ StepDone
  /\ call.flags.return_metrics
  /\ ret.state.params # call.state.params
  /\ ret.aux.metric_states # EmptyDict

\* C2: the state step returns has step = input step + 1, whatever the flags,
\* and the step counter of the held state equals the number of transitions
\* made since TrainStep.init.
C2_StepIncrementsByOne ==
  /\ StepDone => ret.state.step = call.state.step + 1
  /\ replay.done => replay.ret.state.step = call.state.step + 1
  /\ has_state => state.step = n_trans

\* Two steps after init, the second with all flags set.
C2_Witness ==
  /\ StepDone
  /\ call.flags = AllFlags
  /\ call.state.step = 1
  /\ state.step = 2
  /\ n_calls = 2

\* C6: next returns step + 1, with params the new tree when it is given and
\* truthy and the previous params otherwise, and likewise opt_state.
C6_NextKeepsOldOnFalsy ==
  call.op = "next" =>
    /\ ret.state.step = call.state.step + 1
    /\ ret.state.params =
         (IF call.new_params.some /\ DOMAIN call.new_params.tree # {}
          THEN call.new_params ELSE call.state.params)
    /\ ret.state.opt_state =
         (IF call.new_opt_state.some /\ DOMAIN call.new_opt_state.tree # {}
          THEN call.new_opt_state ELSE call.state.opt_state)

\* next given the empty tree for params on a state with a parameter leaf:
\* the old params are kept and the step advances.
C6_Witness ==
  /\ call.op = "next"
  /\ call.new_params = Some(EmptyDict)
  /\ DOMAIN call.state.params.tree # {}
  /\ ret.state.params = call.state.params
  /\ ret.state.step = call.state.step + 1

GetAuxProjection(aux, context, flags) ==
  /\ aux.loss_states =
       (IF flags.return_losses THEN context.loss_states ELSE EmptyDict)
  /\ DOMAIN aux.metric_states = (IF flags.return_metrics THEN Metrics ELSE {})
  /\ DOMAIN aux.summary_kwargs =
       (IF flags.return_summaries THEN Summaries ELSE {})
  /\ (flags = NoFlags => aux = Auxiliaries_default)

\* C7: in get_aux each flag gates its own mapping: loss_states is the
\* context's loss states or empty, metric_states is keyed by the registered
\* metrics or empty, summary_kwargs is keyed by the registered summaries or
\* empty; with no flag set the result is the all-empty Auxiliaries.
C7_GetAuxGatesEachPiece ==
  /\ call.op = "get_aux" => GetAuxProjection(ret.aux, call.ctx, call.flags)
  /\ StepDone => GetAuxProjection(ret.aux, ret.ctx, call.flags)

\* get_aux asked for metrics alone on the context of a step.
C7_Witness ==
  /\ call.op = "get_aux"
  /\ call.flags = [return_losses |-> FALSE, return_metrics |-> TRUE,
                   return_summaries |-> FALSE]
  /\ call.ctx.loss_states # EmptyDict
  /\ ret.aux.loss_states = EmptyDict
  /\ DOMAIN ret.aux.metric_states = Metrics

Operations == {"ModelWithAux.init", "TrainStep.init", "get_aux", "step"}

\* C8 as claimed: every operation called on unresolved references ends in
\* the assertion, with no collaborator called and no output.
C8_EveryOperationAsserts ==
  (~resolved /\ call.op \in Operations) =>
    /\ ret.outcome = "AssertionError"
    /\ ret.touched = {}

\* C8 amended: ModelWithAux.init and TrainStep.init called on unresolved
\* references end in the assertion, with no collaborator called, no params
\* and no state returned.
C8_InitAssertsResolved ==
  (~resolved /\ call.op \in {"ModelWithAux.init", "TrainStep.init"}) =>
    /\ ret.outcome = "AssertionError"
    /\ ret.touched = {}
    /\ ret.params = None
    /\ ret.state = BlankState
    /\ ~has_state

\* TrainStep.init called before the references are resolved.
C8_Witness ==
  /\ ~resolved
  /\ call.op = "TrainStep.init"
  /\ ret.outcome = "AssertionError"

C10_TrainingTimeUnchanged ==
  /\ call.op \in {"step", "next"} =>
       ret.state.training_time_hours = call.state.training_time_hours
  /\ replay.done =>
       replay.ret.state.training_time_hours = call.state.training_time_hours
  /\ has_state => state.training_time_hours = 0

\* Two transitions after init, the last a step.
C10_Witness ==
  /\ StepDone
  /\ n_trans = 2
  /\ state.training_time_hours = 0

\* ---------------------------------------------------- properties of merge
SameKeys(a, b) ==
  /\ Keys(a.loss_states) = Keys(b.loss_states)
  /\ Keys(a.metric_states) = Keys(b.metric_states)

\* C3: merge raises whenever the loss key sets or the metric key sets of the
\* two sides differ, and a merge that returns has the keys of both sides.
C3_MergeRaisesOnKeyMismatch ==
  mres.op = "merge" =>
    /\ ~SameKeys(ma, mb) => mres.ab.raised
    /\ ~mres.ab.raised =>
         /\ SameKeys(mres.ab.value, ma)
         /\ SameKeys(mres.ab.value, mb)

\* The initial Auxiliaries merged with one that has a loss state.
C3_Witness ==
  /\ mres.op = "merge"
  /\ ma = Auxiliaries_default
  /\ Keys(mb.loss_states) = Losses
  /\ mres.ab.raised

\* C4 as claimed: the result of merge has empty summary_kwargs.
C4_SummaryKwargsEmptied ==
  (mres.op = "merge" /\ ~mres.ab.raised) =>
    mres.ab.value.summary_kwargs = EmptyDict

\* C4 amended: summary_kwargs is not merged: the result of merge carries
\* self's summary_kwargs unchanged, whatever other's is.
C4_SummaryKwargsOfSelfKept ==
  (mres.op = "merge" /\ ~mres.ab.raised) =>
    mres.ab.value.summary_kwargs = ma.summary_kwargs

\* A merge of two sides that both hold summary_kwargs, with different values.
C4_Witness ==
  /\ mres.op = "merge"
  /\ ~mres.ab.raised
  /\ Keys(ma.summary_kwargs) = Summaries
  /\ Keys(mb.summary_kwargs) = Summaries
  /\ ma.summary_kwargs # mb.summary_kwargs
  /\ Keys(ma.loss_states) = Losses

\* C5: for three Auxiliaries with the same loss and metric key sets, both
\* groupings of the merge return, and return equal Auxiliaries.
C5_MergeAssociative ==
  (mres.op = "assoc" /\ SameKeys(ma, mb) /\ SameKeys(mb, mc)) =>
    /\ ~mres.left.raised
    /\ mres.left = mres.right

\* Three sides with loss and metric states, the third nonzero, and pairwise
\* different summary_kwargs.
C5_Witness ==
  /\ mres.op = "assoc"
  /\ Keys(ma.loss_states) = Losses /\ Keys(ma.metric_states) = Metrics
  /\ SameKeys(ma, mb) /\ SameKeys(mb, mc)
  /\ mc.loss_states["l2"] = 1 /\ mb.metric_states["norm"] = 1
  /\ ma.summary_kwargs # mb.summary_kwargs
  /\ mb.summary_kwargs # mc.summary_kwargs
  /\ ~mres.left.raised

====
